---- MODULE Spec2Model ----
(***************************************************************************)
(* A model of src/app.py, the Mental Health & Lifestyle dashboard.         *)
(*                                                                         *)
(* The script is re-executed top to bottom on every user interaction.      *)
(* One execution is modelled as a sequence of steps (pc): the cached load, *)
(* the sidebar and filter, the empty check and the four tabs, the last one *)
(* through to the footer.  A run ends done, stopped (st.stop) or on an     *)
(* uncaught exception (sidebar_error, crashed).                            *)
(* Tables are [cols, rows]: a set of column names and a sequence of rows,  *)
(* each row a function from column name to value.  Sleep hours and scores  *)
(* are integers; a mean is kept exact as [sum, n]; a percentage is kept    *)
(* exact as [num, den]; a numeric cell that may be missing (NaN) is the    *)
(* set {v} or {} and a missing label is the string "NaN".                  *)
(***************************************************************************)
EXTENDS Integers, Sequences, FiniteSets, TLC

VARIABLES
    file,         \* content of Mental_Health_Lifestyle_Dataset.csv (rows)
    build,        \* the installed libraries: default of groupby(observed=)
    cache,        \* st.cache_data entry of load_data: <<>> or <<Dataset>>
    loadCalls,    \* executions of the body of load_data in this process
    firstRun,     \* no interaction has happened yet (widgets at defaults)
    pc,           \* position of the running script
    df,           \* df of the current run
    sel,          \* the five multiselect values read by the current run
    filtered_df,  \* filtered_df of the current run
    subset0,      \* filtered_df as the filter produced it (history)
    out,          \* aggregation results of the current run
    aggCalls,     \* aggregation steps invoked in the current run
    display,      \* elements rendered in the current run
    x_var,        \* Relationship Explorer: value of the X picker
    y_var         \* Relationship Explorer: value of the Y picker

vars == <<file, build, cache, loadCalls, firstRun, pc, df, sel, filtered_df,
          subset0, out, aggCalls, display, x_var, y_var>>

\* Largest number of rows of the input file.
MaxRows == 2

-----------------------------------------------------------------------------
(* Columns                                                                 *)

FilterCols == <<"Country", "Gender", "Exercise Level", "Diet Type",
                "Mental Health Condition">>

numeric_cols == <<"Age", "Sleep Hours", "Work Hours per Week",
                  "Screen Time per Day (Hours)", "Social Interaction Score",
                  "Happiness Score", "Stress Level Numeric">>

RawColumns == {"Country", "Age", "Gender", "Exercise Level", "Diet Type",
               "Sleep Hours", "Stress Level", "Mental Health Condition",
               "Work Hours per Week", "Screen Time per Day (Hours)",
               "Social Interaction Score", "Happiness Score"}

Range(s) == {s[i] : i \in DOMAIN s}

EmptyMap == [k \in {} |-> 0]

EmptyFrame == [cols |-> {}, rows |-> <<>>]

-----------------------------------------------------------------------------
(* Input files: rows that differ from BaseRow in at most one column.  A     *)
(* Country of "NaN" is an empty field, which read_csv reads as missing.    *)

BaseRow ==
    [c \in RawColumns |->
        CASE c = "Country" -> "Canada"
          [] c = "Age" -> 30
          [] c = "Gender" -> "Female"
          [] c = "Exercise Level" -> "Low"
          [] c = "Diet Type" -> "Vegan"
          [] c = "Sleep Hours" -> 5
          [] c = "Stress Level" -> "Low"
          [] c = "Mental Health Condition" -> "Anxiety"
          [] c = "Work Hours per Week" -> 40
          [] c = "Screen Time per Day (Hours)" -> 3
          [] c = "Social Interaction Score" -> 7
          [] c = "Happiness Score" -> 6]

ColumnValues(c) ==
    CASE c = "Country" -> {"Canada", "India", "NaN"}
      [] c = "Age" -> {15, 25, 30, 65}
      [] c = "Gender" -> {"Female", "Male"}
      [] c = "Exercise Level" -> {"Low", "High"}
      [] c = "Diet Type" -> {"Vegan", "Keto"}
      [] c = "Sleep Hours" -> {0, 4, 5, 12}
      [] c = "Stress Level" -> {"Low", "Moderate", "High", "Severe"}
      [] c = "Mental Health Condition" -> {"Anxiety", "PTSD"}
      [] c = "Happiness Score" -> {2, 6}
      [] OTHER -> {BaseRow[c]}

VariantPairs(varying) ==
    UNION {{<<c, v>> : v \in ColumnValues(c)} : c \in varying}

RowPool(varying) ==
    {[BaseRow EXCEPT ![p[1]] = p[2]] : p \in VariantPairs(varying)}

Files(pool) == UNION {[1..n -> pool] : n \in 0..MaxRows}

-----------------------------------------------------------------------------
(* load_data (lines 49-57)                                                 *)

stress_map == [k \in {"Low", "Moderate", "High"} |->
                 CASE k = "Low" -> 1 [] k = "Moderate" -> 2 [] k = "High" -> 3]

\* Series.map(dict): a value that is no key of the dict becomes NaN.
MapStress(v) == IF v \in DOMAIN stress_map THEN {stress_map[v]} ELSE {}

WithColumn(row, c, v) == [k \in (DOMAIN row) \cup {c} |-> IF k = c THEN v ELSE row[k]]

load_data(f) ==
    [cols |-> RawColumns \cup {"Stress Level Numeric"},
     rows |-> [i \in 1..Len(f) |->
                 WithColumn(f[i], "Stress Level Numeric",
                            MapStress(f[i]["Stress Level"]))]]

\* Mutant of CacheMiss: load_data without its @st.cache_data decorator.
CacheMissAlways(c) == TRUE

\* st.cache_data: the body runs only when the cache holds no entry.
CacheMiss(c) == c = <<>>

-----------------------------------------------------------------------------
(* Sidebar and filter (lines 61-111)                                       *)

\* sorted(df[c].unique()): the options of the multiselect of column c.
Options(frame, c) == {frame.rows[i][c] : i \in 1..Len(frame.rows)}

\* sorted() compares the values: a missing value (a float) next to a
\* string raises TypeError; a column of missing values alone sorts.
OptionsRaise(frame, c) ==
    "NaN" \in Options(frame, c) /\ Options(frame, c) # {"NaN"}

DefaultSelection(frame) == [c \in Range(FilterCols) |-> Options(frame, c)]

\* What the user can have selected: any subset of each widget's options.
Selections(frame) ==
    {[c \in Range(FilterCols) |->
        CASE c = "Country" -> sc
          [] c = "Gender" -> sg
          [] c = "Exercise Level" -> se
          [] c = "Diet Type" -> sd
          [] c = "Mental Health Condition" -> sm] :
     sc \in SUBSET Options(frame, "Country"),
     sg \in SUBSET Options(frame, "Gender"),
     se \in SUBSET Options(frame, "Exercise Level"),
     sd \in SUBSET Options(frame, "Diet Type"),
     sm \in SUBSET Options(frame, "Mental Health Condition")}

\* Mutant of Mask: the five conditions joined by | instead of &.
MaskAnyColumn(row, s) ==
    \/ row["Country"] \in s["Country"]
    \/ row["Gender"] \in s["Gender"]
    \/ row["Exercise Level"] \in s["Exercise Level"]
    \/ row["Diet Type"] \in s["Diet Type"]
    \/ row["Mental Health Condition"] \in s["Mental Health Condition"]

\* The boolean mask of lines 106-110: isin on each column, joined by &.
Mask(row, s) ==
    /\ row["Country"] \in s["Country"]
    /\ row["Gender"] \in s["Gender"]
    /\ row["Exercise Level"] \in s["Exercise Level"]
    /\ row["Diet Type"] \in s["Diet Type"]
    /\ row["Mental Health Condition"] \in s["Mental Health Condition"]

RECURSIVE SelectRows(_, _)
SelectRows(rows, s) ==
    IF rows = <<>> THEN <<>>
    ELSE IF Mask(Head(rows), s)
         THEN <<Head(rows)>> \o SelectRows(Tail(rows), s)
         ELSE SelectRows(Tail(rows), s)

\* Mutant of Filter: the mask is applied one row late, so the first row
\* that matches is lost.
FilterLosesFirst(frame, s) ==
    [cols |-> frame.cols,
     rows |-> IF SelectRows(frame.rows, s) = <<>> THEN <<>>
              ELSE Tail(SelectRows(frame.rows, s))]

\* df[mask]: a new table with the rows whose mask is true, in order.
Filter(frame, s) == [cols |-> frame.cols, rows |-> SelectRows(frame.rows, s)]

\* Mutant of IsEmpty: the check of line 118 never fires.
IsEmptyNever(frame) == FALSE

\* filtered_df.empty (line 118)
IsEmpty(frame) == Len(frame.rows) = 0

-----------------------------------------------------------------------------
(* Aggregation functions                                                   *)

Indices(rows) == 1..Len(rows)

RECURSIVE SumOver(_, _, _)
SumOver(rows, idx, c) ==
    IF idx = {} THEN 0
    ELSE LET i == CHOOSE j \in idx : TRUE
         IN rows[i][c] + SumOver(rows, idx \ {i}, c)

\* The mean of column val over the rows idx; n = 0 is the mean of no row (NaN).
MeanOf(rows, idx, val) == [sum |-> SumOver(rows, idx, val), n |-> Cardinality(idx)]

\* The group keys a groupby keeps: labels that are missing form no group.
ObservedKeys(rows, by) == {rows[i][by] : i \in Indices(rows)} \ {"NaN"}

\* df.groupby(by)[val].mean() on a column of plain values (lines 135, 451, 463).
groupby_mean(rows, by, val) ==
    [g \in ObservedKeys(rows, by) |->
        MeanOf(rows, {i \in Indices(rows) : rows[i][by] = g}, val)]

\* df.groupby(by)[val].mean() on a categorical column (line 480): with
\* observed=False every category is a group, also one without rows.
groupby_mean_categorical(rows, by, val, categories, observed) ==
    [g \in (IF observed THEN ObservedKeys(rows, by) ELSE Range(categories)) |->
        MeanOf(rows, {i \in Indices(rows) : rows[i][by] = g}, val)]

\* Mutant of Normalizer: normalize="all", every cell divided by the number
\* of rows of the whole table.
NormalizerAll(rows, rowcol, r) ==
    Cardinality({i \in Indices(rows) : rows[i][rowcol] # "NaN"})

\* normalize="index": each cell is divided by the count of its row group.
Normalizer(rows, rowcol, r) ==
    Cardinality({i \in Indices(rows) : rows[i][rowcol] = r})

\* pd.crosstab(rowcol, colcol, normalize="index") * 100 (lines 250, 289, 351):
\* rows whose row label is missing are dropped.
crosstab(rows, rowcol, colcol) ==
    LET valid == {i \in Indices(rows) : rows[i][rowcol] # "NaN"}
        R == {rows[i][rowcol] : i \in valid}
        C == {rows[i][colcol] : i \in valid}
    IN [r \in R |-> [c \in C |->
          [num |-> 100 * Cardinality({i \in valid : rows[i][rowcol] = r /\ rows[i][colcol] = c}),
           den |-> Normalizer(rows, rowcol, r)]]]

\* pd.cut(value, bins, labels, right): the label of the interval holding
\* the value, or NaN when no interval holds it (include_lowest is False).
cut(v, bins, labels, right) ==
    LET hit == {i \in 1..(Len(bins) - 1) :
                   IF right THEN bins[i] < v /\ v <= bins[i + 1]
                            ELSE bins[i] <= v /\ v < bins[i + 1]}
    IN IF hit = {} THEN "NaN" ELSE labels[CHOOSE i \in hit : TRUE]

age_bins == <<15, 25, 35, 45, 55, 65>>
age_labels == <<"18-25", "26-35", "36-45", "46-55", "56-65">>

\* line 348: right=False
AgeGroup(age) == cut(age, age_bins, age_labels, FALSE)

sleep_bins == <<0, 4, 6, 8, 12>>
sleep_labels == <<"<4 hrs", "4-6 hrs", "6-8 hrs", ">8 hrs">>

\* lines 475-479: right is not passed, so it is pd.cut's default, True
SleepBin(hours) == cut(hours, sleep_bins, sleep_labels, TRUE)

\* Mutant of JitterColumn: the jittered scores overwrite the scores.
JitterInPlace == "Happiness Score"

\* line 317: the column the jittered scores are stored in
JitterColumn == "Happiness Jitter"

\* frame[c] = values: adds (or replaces) column c of the table frame refers to.
setitem(frame, c, values) ==
    [cols |-> frame.cols \cup {c},
     rows |-> [i \in Indices(frame.rows) |-> WithColumn(frame.rows[i], c, values[i])]]

\* np.random.normal(0, 0.1): the jitter added to one point, as a sign.
Noise == {-1, 1}

-----------------------------------------------------------------------------
(* Relationship Explorer (lines 560-615)                                   *)

\* A numeric cell as a set: {} when it is missing.
Cell(row, c) == IF c = "Stress Level Numeric" THEN row[c] ELSE {row[c]}

IndexOf(seq, e) == (CHOOSE i \in DOMAIN seq : seq[i] = e) - 1

\* line 571: the options of the Y picker
YOptions(x) == SelectSeq(numeric_cols, LAMBDA col : col # x)

\* line 572: the (0-based) index of the Y picker's default
YIndex(x) == IF x # "Happiness Score" THEN IndexOf(numeric_cols, "Happiness Score") ELSE 0

\* lines 569-573: the Y the picker shows until the user picks another
YDefault(x) == YOptions(x)[YIndex(x) + 1]

\* line 577: the options of the colour radio; the first is its default
color_options == <<"Mental Health Condition", "Exercise Level", "Diet Type",
                   "Country", "Gender">>

DistinctX(rows, idx, x) == UNION {Cell(rows[i], x) : i \in idx}

\* The points px.scatter fits a trendline to: per colour, those with x and y.
Usable(rows, x, y, colour, g) ==
    {i \in Indices(rows) :
        rows[i][colour] = g /\ Cell(rows[i], x) # {} /\ Cell(rows[i], y) # {}}

\* A colour group of two or more points that all have the same x.
TrendlineDegenerate(rows, x, y, colour) ==
    \E g \in {rows[i][colour] : i \in Indices(rows)} :
        /\ Cardinality(Usable(rows, x, y, colour, g)) >= 2
        /\ Cardinality(DistinctX(rows, Usable(rows, x, y, colour, g), x)) < 2

\* What px.scatter(trendline="ols") (line 582) can do: it fits one line per
\* colour group of two or more points, and on a group with a single x the
\* library returns a fit or raises, depending on its version.
TrendlineOutcomes(rows, x, y, colour) ==
    IF TrendlineDegenerate(rows, x, y, colour) THEN {"fit", "raise"} ELSE {"fit"}

\* What sm.OLS(y, X).fit() and the metrics (lines 598-615) can do.  The
\* script has no check of its own and no try/except: a missing x raises
\* (exog contains nans); with a missing y or fewer than two distinct x the
\* library returns a fit of a line that is not determined, or raises.
OlsOutcomes(rows, x, y) ==
    IF \E i \in Indices(rows) : Cell(rows[i], x) = {}
    THEN {"raise"}
    ELSE IF \/ \E i \in Indices(rows) : Cell(rows[i], y) = {}
            \/ Cardinality(DistinctX(rows, Indices(rows), x)) < 2
         THEN {"fit", "raise"}
         ELSE {"fit"}

\* What the X and Y pickers hold: their defaults until the user has
\* interacted, afterwards any X and any Y the Y picker offers for that X.
PickerChoices(first) ==
    IF first
    THEN {<<numeric_cols[1], YDefault(numeric_cols[1])>>}
    ELSE UNION {{<<x, y>> : y \in Range(YOptions(x))} : x \in Range(numeric_cols)}

\* What the colour radio holds, in the same way.
ColorChoices(first) ==
    IF first THEN {color_options[1]} ELSE Range(color_options)

-----------------------------------------------------------------------------
(* The script, step by step                                                *)

NoOutputs ==
    [country_happiness |-> EmptyMap, mh_by_country |-> EmptyMap,
     mh_by_gender |-> EmptyMap, mh_by_age |-> EmptyMap,
     exercise_happiness |-> EmptyMap, diet_happiness |-> EmptyMap,
     sleep_happiness |-> EmptyMap]

NoSelection == [c \in Range(FilterCols) |-> {}]

InitWith(pool) ==
    /\ file \in Files(pool)
    /\ build \in [observed : BOOLEAN]
    /\ cache = <<>>
    /\ loadCalls = 0
    /\ firstRun = TRUE
    /\ pc = "start"
    /\ df = EmptyFrame
    /\ sel = NoSelection
    /\ filtered_df = EmptyFrame
    /\ subset0 = EmptyFrame
    /\ out = NoOutputs
    /\ aggCalls = {}
    /\ display = {}
    /\ x_var = numeric_cols[1]
    /\ y_var = YDefault(numeric_cols[1])

\* line 59: df = load_data(), through st.cache_data
LoadData ==
    /\ pc = "start"
    /\ IF CacheMiss(cache)
       THEN /\ cache' = <<load_data(file)>>
            /\ loadCalls' = loadCalls + 1
       ELSE UNCHANGED <<cache, loadCalls>>
    /\ df' = cache'[1]
    /\ pc' = "sidebar"
    /\ UNCHANGED <<file, build, firstRun, sel, filtered_df, subset0, out,
                   aggCalls, display, x_var, y_var>>

\* lines 61-115: the five multiselects are read and df is filtered.  The
\* widgets hold what the user selected last: the defaults (every option)
\* at first, any subset of the options after an interaction.  An
\* exception of sorted() (lines 65-97) ends the run before the filter.
SidebarFilter ==
    /\ pc = "sidebar"
    /\ IF \E c \in Range(FilterCols) : OptionsRaise(df, c)
       THEN /\ pc' = "sidebar_error"
            /\ display' = display \cup {"exception"}
            /\ UNCHANGED <<sel, filtered_df, subset0>>
       ELSE /\ \E s \in (IF firstRun THEN {DefaultSelection(df)} ELSE Selections(df)) :
                  /\ sel' = s
                  /\ filtered_df' = Filter(df, s)
                  /\ subset0' = Filter(df, s)
            /\ pc' = "check"
            /\ display' = display
    /\ UNCHANGED <<file, build, cache, loadCalls, firstRun, df, out, aggCalls,
                   x_var, y_var>>

\* lines 117-120: st.error and st.stop() when nothing matches
CheckEmpty ==
    /\ pc = "check"
    /\ IF IsEmpty(filtered_df)
       THEN /\ display' = display \cup {"error_no_data"}
            /\ pc' = "stopped"
       ELSE /\ display' = display
            /\ pc' = "tab1"
    /\ UNCHANGED <<file, build, cache, loadCalls, firstRun, df, sel,
                   filtered_df, subset0, out, aggCalls, x_var, y_var>>

\* lines 125-232: Overview
Tab1 ==
    /\ pc = "tab1"
    /\ out' = [out EXCEPT !.country_happiness =
                 groupby_mean(filtered_df.rows, "Country", "Happiness Score")]
    /\ aggCalls' = aggCalls \cup {"group_mean"}
    /\ display' = display \cup {"overview"}
    /\ pc' = "tab2"
    /\ UNCHANGED <<file, build, cache, loadCalls, firstRun, df, sel,
                   filtered_df, subset0, x_var, y_var>>

\* lines 234-373: Mental Health
Tab2 ==
    /\ pc = "tab2"
    /\ \E noise \in [Indices(filtered_df.rows) -> Noise] :
         LET jittered == setitem(filtered_df, JitterColumn,
                            [i \in Indices(filtered_df.rows) |->
                                filtered_df.rows[i]["Happiness Score"] + noise[i]])
             grouped == setitem(jittered, "Age Group",
                            [i \in Indices(jittered.rows) |->
                                AgeGroup(jittered.rows[i]["Age"])])
         IN /\ filtered_df' = grouped
            /\ out' = [out EXCEPT
                 !.mh_by_country = crosstab(filtered_df.rows, "Country", "Mental Health Condition"),
                 !.mh_by_gender = crosstab(filtered_df.rows, "Gender", "Mental Health Condition"),
                 !.mh_by_age = crosstab(grouped.rows, "Age Group", "Mental Health Condition")]
    /\ aggCalls' = aggCalls \cup {"crosstab", "jitter", "binning"}
    /\ display' = display \cup {"mental_health"}
    /\ pc' = "tab3"
    /\ UNCHANGED <<file, build, cache, loadCalls, firstRun, df, sel, subset0,
                   x_var, y_var>>

\* lines 375-501: Lifestyle
Tab3 ==
    /\ pc = "tab3"
    /\ LET binned == setitem(filtered_df, "Sleep Bin",
                        [i \in Indices(filtered_df.rows) |->
                            SleepBin(filtered_df.rows[i]["Sleep Hours"])])
       IN /\ filtered_df' = binned
          /\ out' = [out EXCEPT
               !.exercise_happiness = groupby_mean(filtered_df.rows, "Exercise Level", "Happiness Score"),
               !.diet_happiness = groupby_mean(filtered_df.rows, "Diet Type", "Happiness Score"),
               !.sleep_happiness = groupby_mean_categorical(binned.rows, "Sleep Bin",
                                       "Happiness Score", sleep_labels, build.observed)]
    /\ aggCalls' = aggCalls \cup {"group_mean", "binning"}
    /\ display' = display \cup {"lifestyle"}
    /\ pc' = "tab4"
    /\ UNCHANGED <<file, build, cache, loadCalls, firstRun, df, sel, subset0,
                   x_var, y_var>>

\* lines 503-625: Correlations, the Relationship Explorer and the footer
Tab4 ==
    /\ pc = "tab4"
    /\ \E w \in PickerChoices(firstRun) :
       \* the colour is not kept: only what it makes the trendline do
       \E trend \in UNION {TrendlineOutcomes(filtered_df.rows, w[1], w[2], colour) :
                              colour \in ColorChoices(firstRun)} :
       \E ols \in OlsOutcomes(filtered_df.rows, w[1], w[2]) :
          /\ x_var' = w[1]
          /\ y_var' = w[2]
          /\ IF trend = "raise"
             THEN \* line 582 raises: the chart is not rendered
                  /\ display' = display \cup {"fig_corr", "exception"}
                  /\ pc' = "crashed"
             ELSE IF ols = "raise"
             THEN \* line 595 has rendered the chart, then line 604 raises
                  /\ display' = display \cup {"fig_corr", "fig_regression", "exception"}
                  /\ pc' = "crashed"
             ELSE \* lines 606-625: the metrics, the summary and the footer
                  /\ display' = display \cup {"fig_corr", "fig_regression",
                                               "regression_metrics", "footer"}
                  /\ pc' = "done"
    /\ aggCalls' = aggCalls \cup {"correlation", "regression"}
    /\ UNCHANGED <<file, build, cache, loadCalls, firstRun, df, sel,
                   filtered_df, subset0, out>>

\* A user interaction: Streamlit runs the script again from the top.
Rerun ==
    /\ pc \in {"stopped", "done", "crashed", "sidebar_error"}
    /\ pc' = "start"
    /\ firstRun' = FALSE
    /\ df' = EmptyFrame
    /\ sel' = NoSelection
    /\ filtered_df' = EmptyFrame
    /\ subset0' = EmptyFrame
    /\ out' = NoOutputs
    /\ aggCalls' = {}
    /\ display' = {}
    /\ x_var' = numeric_cols[1]
    /\ y_var' = YDefault(numeric_cols[1])
    /\ UNCHANGED <<file, build, cache, loadCalls>>

Next ==
    \/ LoadData
    \/ SidebarFilter
    \/ CheckEmpty
    \/ Tab1
    \/ Tab2
    \/ Tab3
    \/ Tab4
    \/ Rerun

\* Files whose rows differ in the five filtered columns.
Init == InitWith(RowPool(Range(FilterCols)))

Spec == Init /\ [][Next]_vars

\* Files whose rows differ in the binned values and the condition.
InitValues ==
    InitWith(RowPool({"Age", "Sleep Hours", "Mental Health Condition"}))

SpecValues == InitValues /\ [][Next]_vars

\* Files whose rows differ in the stress level and the happiness score.
InitScores == InitWith(RowPool({"Stress Level", "Happiness Score"}))

SpecScores == InitScores /\ [][Next]_vars

-----------------------------------------------------------------------------
(* Claims                                                                  *)

AfterFilter == pc \notin {"start", "sidebar", "sidebar_error"}

\* The rows of df that pass all five membership tests, by position.
Passing == {i \in Indices(df.rows) :
               \A c \in Range(FilterCols) : df.rows[i][c] \in sel[c]}

\* The k-th smallest element of a set of positions.
KthOf(S, k) == CHOOSE i \in S : Cardinality({j \in S : j <= i}) = k

\* C1: the filtered subset is exactly the rows of the dataset whose value
\* in each of the five columns is in that column's selection set, in the
\* dataset's row order: every row in it passes all five tests and every
\* row left out fails at least one.
C1_FilterIsExactSubsequence ==
    AfterFilter =>
        /\ Len(subset0.rows) = Cardinality(Passing)
        /\ \A k \in Indices(subset0.rows) : subset0.rows[k] = df.rows[KthOf(Passing, k)]
        /\ subset0.cols = df.cols

\* A two-row dataset whose first row is filtered out and second row kept.
C1_Witness ==
    /\ pc = "check"
    /\ Len(df.rows) = 2
    /\ df.rows[1] # df.rows[2]
    /\ filtered_df.rows = <<df.rows[2]>>

\* C2: a run whose filtered subset is empty ends in the "no matching
\* records" display state: the error is shown, no aggregation step has
\* been invoked, nothing else is rendered and no exception is shown.
C2_EmptyStopsBeforeAggregation ==
    (AfterFilter /\ pc # "check" /\ Len(subset0.rows) = 0) =>
        /\ pc = "stopped"
        /\ aggCalls = {}
        /\ display = {"error_no_data"}

\* Every selection set emptied over a dataset that has rows.
C2_Witness ==
    /\ pc = "stopped"
    /\ Len(df.rows) > 0
    /\ \A c \in Range(FilterCols) : sel[c] = {}
    /\ ~firstRun

\* C8: filtering the filtered subset again with the same selection gives
\* the same rows in the same order.
C8_FilterIdempotent ==
    AfterFilter => Filter(subset0, sel) = subset0

\* A strict, non-empty subset has been produced by the filter.
C8_Witness ==
    /\ pc = "check"
    /\ Len(filtered_df.rows) >= 1
    /\ Len(filtered_df.rows) < Len(df.rows)
    /\ Filter(filtered_df, sel) = filtered_df

\* The label the claim gives a value: that of the half-open interval
\* [edges[i], edges[i+1]) holding it, or none.
HalfOpenLabel(v, edges, labels) ==
    IF \E i \in 1..(Len(edges) - 1) : edges[i] <= v /\ v < edges[i + 1]
    THEN labels[CHOOSE i \in 1..(Len(edges) - 1) : edges[i] <= v /\ v < edges[i + 1]]
    ELSE "NaN"

\* C3 (as claimed): every binning the pipeline performs, of Age into age
\* groups and of Sleep Hours into sleep bins, gives a value the label of
\* the half-open interval [edges[i], edges[i+1]) that holds it, and no bin
\* to a value in no such interval.
C3_BinningHalfOpen ==
    \A i \in Indices(filtered_df.rows) :
        /\ "Age Group" \in filtered_df.cols =>
              filtered_df.rows[i]["Age Group"] =
                  HalfOpenLabel(filtered_df.rows[i]["Age"], age_bins, age_labels)
        /\ "Sleep Bin" \in filtered_df.cols =>
              filtered_df.rows[i]["Sleep Bin"] =
                  HalfOpenLabel(filtered_df.rows[i]["Sleep Hours"], sleep_bins, sleep_labels)

\* C4 (as claimed): in every Dataset the load has returned, every record's
\* Stress Level is Low, Moderate or High and its Stress Level Numeric is
\* 1, 2 or 3 by that mapping, never missing.
C4_StressNumericNeverMissing ==
    cache # <<>> =>
        \A i \in Indices(cache[1].rows) :
            /\ cache[1].rows[i]["Stress Level"] \in {"Low", "Moderate", "High"}
            /\ cache[1].rows[i]["Stress Level Numeric"] \in {{1}, {2}, {3}}

\* The regression step has run on a subset with fewer than two distinct x.
FewDistinctX ==
    /\ pc \in {"crashed", "done"}
    /\ Cardinality(DistinctX(subset0.rows, Indices(subset0.rows), x_var)) < 2

\* C5 (as claimed): when the regression is requested on a non-empty subset
\* with fewer than two distinct x values, the view does not crash, the
\* regression chart and metrics are omitted, a warning is shown, and the
\* run completes through to the footer.
C5_DegenerateRegressionRecovers ==
    FewDistinctX =>
        /\ pc # "crashed"
        /\ "exception" \notin display
        /\ "regression_warning" \in display
        /\ "fig_regression" \notin display
        /\ "regression_metrics" \notin display
        /\ pc = "done" => "footer" \in display

\* C6: the Dataset is created by one execution of load_data and is never
\* changed afterwards: whatever the interactions, the body of load_data has
\* run at most once, the cached Dataset is what that load produced from the
\* file, and the df of every run is that Dataset.
C6_DatasetLoadedOnceNeverMutated ==
    /\ loadCalls <= 1
    /\ cache # <<>> =>
          /\ loadCalls = 1
          /\ cache[1] = load_data(file)
          /\ cache[1].cols = RawColumns \cup {"Stress Level Numeric"}
    /\ pc # "start" => cache # <<>> /\ df = cache[1]

\* A run after an interaction, with a changed selection, is complete.
C6_Witness ==
    /\ ~firstRun
    /\ pc = "done"
    /\ loadCalls = 1
    /\ sel # DefaultSelection(df)
    /\ filtered_df.cols # df.cols

DerivedColumns == {"Happiness Jitter", "Age Group", "Sleep Bin"}

Restrict(row, cols) == [c \in cols |-> row[c]]

\* C7 (as claimed): after the aggregation steps the filtered subset has the
\* same rows and the same set of columns as before they ran.
C7_AggregationLeavesSubsetUntouched ==
    AfterFilter => filtered_df = subset0

\* C7 (amended): the aggregation steps keep the rows of the filtered subset
\* and the value of every column it had, and add three derived columns to
\* it (Happiness Jitter and Age Group in the Mental Health tab, Sleep Bin in
\* the Lifestyle tab); the Dataset itself gets no column.
C7_AggregationAddsOnlyDerivedColumns ==
    AfterFilter =>
        /\ Len(filtered_df.rows) = Len(subset0.rows)
        /\ \A i \in Indices(subset0.rows) :
              Restrict(filtered_df.rows[i], subset0.cols) = subset0.rows[i]
        /\ filtered_df.cols =
              subset0.cols \cup
              (IF pc \in {"tab3", "tab4", "crashed", "done"}
               THEN {"Happiness Jitter", "Age Group"} ELSE {}) \cup
              (IF pc \in {"tab4", "crashed", "done"}
               THEN {"Sleep Bin"} ELSE {})
        /\ \A i \in Indices(filtered_df.rows) : DOMAIN filtered_df.rows[i] = filtered_df.cols
        /\ df.cols \cap DerivedColumns = {}

\* All steps have run on a subset of two different rows.
C7_Witness ==
    /\ pc = "done"
    /\ Len(filtered_df.rows) = 2
    /\ filtered_df.rows[1]["Age"] # filtered_df.rows[2]["Age"]
    /\ filtered_df.cols = subset0.cols \cup DerivedColumns

RECURSIVE SumNum(_, _)
SumNum(cells, keys) ==
    IF keys = {} THEN 0
    ELSE LET k == CHOOSE j \in keys : TRUE
         IN cells[k].num + SumNum(cells, keys \ {k})

\* The number of rows of the filtered subset whose column c holds r.
GroupSize(c, r) == Cardinality({i \in Indices(filtered_df.rows) : filtered_df.rows[i][c] = r})

CrosstabRowsSumTo100(t, rowcol) ==
    \A r \in DOMAIN t :
        /\ GroupSize(rowcol, r) >= 1
        /\ \A c \in DOMAIN t[r] :
              /\ t[r][c].den > 0
              /\ SumNum(t[r], DOMAIN t[r]) = 100 * t[r][c].den
        /\ SumNum(t[r], DOMAIN t[r]) = 100 * GroupSize(rowcol, r)

\* C9: in each row-normalized cross-tabulation (condition by Country, by
\* Gender, by Age Group) every row group of the output has at least one
\* record and its percentages add up to 100: the cell counts of the group
\* add up to the group's row count.
C9_CrosstabRowsSumTo100 ==
    pc \in {"tab3", "tab4", "crashed", "done"} =>
        /\ CrosstabRowsSumTo100(out.mh_by_country, "Country")
        /\ CrosstabRowsSumTo100(out.mh_by_gender, "Gender")
        /\ CrosstabRowsSumTo100(out.mh_by_age, "Age Group")

\* Two age groups and two conditions are in the table by age group.
C9_Witness ==
    /\ pc = "done"
    /\ Cardinality(DOMAIN out.mh_by_age) = 2
    /\ \A r \in DOMAIN out.mh_by_age : Cardinality(DOMAIN out.mh_by_age[r]) = 2

\* The group values of column c that some row of the filtered subset has.
GroupsWithRows(c) == {filtered_df.rows[i][c] : i \in Indices(filtered_df.rows)} \ {"NaN"}

\* C10 (as claimed): each group mean (Happiness Score by Country, by
\* Exercise Level, by Diet Type, by Sleep Bin) has an entry for a group
\* value exactly when some row of the filtered subset has that value; a
\* sleep bin no row falls into is absent.
C10_GroupMeanHasExactlyObservedGroups ==
    pc \in {"tab4", "crashed", "done"} =>
        /\ DOMAIN out.country_happiness = GroupsWithRows("Country")
        /\ DOMAIN out.exercise_happiness = GroupsWithRows("Exercise Level")
        /\ DOMAIN out.diet_happiness = GroupsWithRows("Diet Type")
        /\ DOMAIN out.sleep_happiness = GroupsWithRows("Sleep Bin")

\* The Relationship Explorer has read its two pickers in this run.
PickersRead == pc \in {"crashed", "done"}

\* C11 (as claimed): for every X among the seven numeric columns the Y
\* picker offers exactly the six other numeric columns, its default index
\* lies within that list, and the Y it selects by default is Happiness
\* Score whenever X is not Happiness Score, and the first remaining column
\* when X is Happiness Score.
C11_YPickerDefaultsToHappiness ==
    PickersRead =>
        /\ Range(YOptions(x_var)) = Range(numeric_cols) \ {x_var}
        /\ Len(YOptions(x_var)) = Len(numeric_cols) - 1
        /\ YIndex(x_var) \in 0..(Len(YOptions(x_var)) - 1)
        /\ YDefault(x_var) # x_var
        /\ YDefault(x_var) = IF x_var # "Happiness Score" THEN "Happiness Score"
                             ELSE YOptions(x_var)[1]
        /\ firstRun => y_var = YDefault(x_var)

====
